---- MODULE Spec2Model ----
(***************************************************************************)
(* A model of the JSON event formatter with trace correlation:             *)
(*   src/src/trace.rs  remote_trace_span, trace_info_from_ref              *)
(*   src/src/json.rs   Json::format_event, WriteAdaptor,                    *)
(*                     SerializableSpan::serialize                          *)
(*   src/src/main.rs   the wiring of the span registry, the OpenTelemetry  *)
(*                     layer and the formatter, and the spans it creates   *)
(*                                                                         *)
(* Text is modelled as a sequence of chunks.  Identifiers in hexadecimal   *)
(* are sequences of one-character chunks, so that parsing and printing     *)
(* them is computed character by character; fixed words ("timestamp") are  *)
(* one chunk.  The sink holds the sequence of chunks-sequences ("tokens")  *)
(* that were written to it, one token per write the serializer issues.     *)
(***************************************************************************)
EXTENDS Integers, Sequences, FiniteSets, TLC

VARIABLES
    spans,      \* the span registry: span id -> span data (extensions included)
    stack,      \* the entered spans of the thread, innermost last
    provider,   \* whether the tracer provider is still installed
    debug,      \* cfg!(debug_assertions) of the build
    sink,       \* the text sink: every token written so far
    calls,      \* one record per format_event call, in call order
    attach,     \* one record per remote_trace_span call, in call order
    rooted,     \* span id -> the remote context the span was created or placed under
    panicked    \* the thread has panicked

vars == <<spans, stack, provider, debug, sink, calls, attach, rooted, panicked>>

----------------------------------------------------------------------------
(* Bounds of the exploration *)

MaxSpans == 3
MaxFmtSpans == 1
MaxCalls == 1
MaxFmtCalls == 2
MaxFaults == 1
MaxAttach == 2
MaxFmtAttach == 1

----------------------------------------------------------------------------
(* Text helpers *)

Rep(c, n) == [i \in 1..n |-> c]

\* F applied to the value of e, e being evaluated once
Bind(e, F(_)) == CHOOSE r \in { F(x) : x \in {e} } : TRUE

Min(S) == CHOOSE x \in S : \A y \in S : x <= y

\* char::to_digit(16): the value of a hexadecimal digit, -1 when it is none
HexVal(c) ==
    CASE c = "0" -> 0 [] c = "1" -> 1 [] c = "2" -> 2 [] c = "3" -> 3
      [] c = "4" -> 4 [] c = "5" -> 5 [] c = "6" -> 6 [] c = "7" -> 7
      [] c = "8" -> 8 [] c = "9" -> 9
      [] c \in {"a", "A"} -> 10 [] c \in {"b", "B"} -> 11
      [] c \in {"c", "C"} -> 12 [] c \in {"d", "D"} -> 13
      [] c \in {"e", "E"} -> 14 [] c \in {"f", "F"} -> 15
      [] OTHER -> -1

LowerHexDigits == <<"0", "1", "2", "3", "4", "5", "6", "7",
                    "8", "9", "a", "b", "c", "d", "e", "f">>

\* The width of a trace id (u128) and of a span id (u64), in hex digits
TraceHexLen == 32
SpanHexLen == 16

RECURSIVE StripZeros(_)
StripZeros(ds) ==
    IF ds # <<>> /\ Head(ds) = 0 THEN StripZeros(Tail(ds)) ELSE ds

\* uN::from_str_radix(src, 16) for an unsigned integer of `width` hex digits:
\* an optional "+", then one or more digits; the value must fit the type.
\* The value is kept as its `width` digits, most significant first.
from_str_radix(src, width) ==
    LET body   == IF src # <<>> /\ Head(src) = "+" THEN Tail(src) ELSE src
        digits == [i \in 1..Len(body) |-> HexVal(body[i])]
        sig    == StripZeros(digits)
    IN  IF src = <<>> \/ body = <<>>
          THEN [ok |-> FALSE, v |-> Rep(0, width)]
        ELSE IF \E i \in 1..Len(digits) : digits[i] < 0
          THEN [ok |-> FALSE, v |-> Rep(0, width)]
        ELSE IF Len(sig) > width
          THEN [ok |-> FALSE, v |-> Rep(0, width)]
        ELSE [ok |-> TRUE, v |-> Rep(0, width - Len(sig)) \o sig]

\* TraceId::from_hex, SpanId::from_hex
TraceId_from_hex(s) == from_str_radix(s, TraceHexLen)
SpanId_from_hex(s) == from_str_radix(s, SpanHexLen)

\* Display of TraceId / SpanId: {:032x} / {:016x}
to_string(id) == [i \in 1..Len(id) |-> LowerHexDigits[id[i] + 1]]

TraceId_INVALID == Rep(0, TraceHexLen)
SpanId_INVALID == Rep(0, SpanHexLen)

----------------------------------------------------------------------------
(* JSON text: the tokens serde_json's compact formatter writes, one write  *)
(* each, and the lexemes of a recorded field blob.                          *)

LB == <<"{">>
RB == <<"}">>
COMMA == <<",">>
COLON == <<":">>
QUOTE == <<"\"">>
NEWLINE == <<"\n">>

NumberLits == {<<"1">>, <<"2">>, <<"42">>}
WordLits == {<<"true">>, <<"false">>, <<"null">>}

\* serde_json::Value, every kind with the same fields
StringValue(s) == [kind |-> "string", lit |-> s, members |-> <<>>]
ScalarValue(t) == [kind |-> IF t \in NumberLits THEN "number" ELSE "word",
                   lit |-> t, members |-> <<>>]
ObjectValue(ms) == [kind |-> "object", lit |-> <<>>, members |-> ms]
NullValue == [kind |-> "word", lit |-> <<"null">>, members |-> <<>>]

\* Map::insert: a key already present keeps its place and takes the new value
MapInsert(ms, k, v) ==
    IF \E i \in 1..Len(ms) : ms[i].key = k
      THEN [i \in 1..Len(ms) |-> IF ms[i].key = k THEN [key |-> k, val |-> v] ELSE ms[i]]
      ELSE Append(ms, [key |-> k, val |-> v])

RECURSIVE Collect(_)
RECURSIVE CollectMembers(_, _)

\* The Value a visitor builds from the members read: each member is inserted
\* into the map in reading order
Collect(v) ==
    IF v.kind = "object" THEN ObjectValue(CollectMembers(v.members, <<>>)) ELSE v

CollectMembers(ms, acc) ==
    IF ms = <<>> THEN acc
    ELSE Bind(MapInsert(acc, Head(ms).key, Collect(Head(ms).val)),
              LAMBDA next : CollectMembers(Tail(ms), next))

ParseOk(v, next) == [ok |-> TRUE, val |-> v, next |-> next, err |-> <<>>]
ParseErr(msg) == [ok |-> FALSE, val |-> NullValue, next |-> 0, err |-> <<msg>>]

RECURSIVE ParseValue(_, _)
RECURSIVE ParseObject(_, _, _, _)

\* Deserializer::parse_value at token i of t
ParseValue(t, i) ==
    IF i > Len(t) THEN ParseErr("EOF while parsing a value")
    ELSE IF t[i] = QUOTE THEN
        IF i + 1 <= Len(t) /\ t[i + 1] = QUOTE
          THEN ParseOk(StringValue(<<>>), i + 2)
        ELSE IF i + 2 <= Len(t) /\ t[i + 2] = QUOTE
          THEN ParseOk(StringValue(t[i + 1]), i + 3)
        ELSE ParseErr("EOF while parsing a string")
    ELSE IF t[i] = LB THEN ParseObject(t, i + 1, <<>>, "first")
    ELSE IF t[i] \in NumberLits \cup WordLits THEN ParseOk(ScalarValue(t[i]), i + 1)
    ELSE ParseErr("expected value")

\* The members of an object as they stand in the text, from token i; at is
\* "first" right after the brace, "member" after a member, "comma" after a comma
ParseObject(t, i, acc, at) ==
    IF i > Len(t) THEN ParseErr("EOF while parsing an object")
    ELSE IF t[i] = RB /\ at # "comma" THEN ParseOk(ObjectValue(acc), i + 1)
    ELSE IF t[i] = RB THEN ParseErr("trailing comma")
    ELSE IF at = "member" THEN
        IF t[i] = COMMA THEN ParseObject(t, i + 1, acc, "comma")
        ELSE ParseErr("expected comma or closing brace")
    ELSE IF t[i] # QUOTE THEN ParseErr("key must be a string")
    ELSE Bind(ParseValue(t, i), LAMBDA k :
           IF ~k.ok THEN k
           ELSE IF k.next > Len(t) THEN ParseErr("EOF while parsing an object")
           ELSE IF t[k.next] # COLON THEN ParseErr("expected colon")
           ELSE Bind(ParseValue(t, k.next + 1), LAMBDA v :
                  IF ~v.ok THEN v
                  ELSE Bind(Append(acc, [key |-> k.val.lit, val |-> v.val]),
                            LAMBDA members : ParseObject(t, v.next, members, "member"))))

\* One JSON value and nothing after it, as it stands in the text
ParseDocument(t) ==
    Bind(ParseValue(t, 1), LAMBDA r :
      IF ~r.ok THEN r
      ELSE IF r.next # Len(t) + 1 THEN ParseErr("trailing characters")
      ELSE r)

\* serde_json::from_str::<Value>
from_str(t) ==
    Bind(ParseDocument(t), LAMBDA r :
      IF r.ok THEN [r EXCEPT !.val = Collect(r.val)] ELSE r)

\* serialize_str: the opening quote, the contents if any, the closing quote
StrToks(s) == IF s = <<>> THEN <<QUOTE, QUOTE>> ELSE <<QUOTE, s, QUOTE>>

\* SerializeMap::serialize_entry: serialize_key (a comma unless the entry is
\* the first of its map, then the key) and serialize_value (a colon, the value)
EntryToks(first, key, valueToks) ==
    (IF first THEN <<>> ELSE <<COMMA>>) \o StrToks(key) \o <<COLON>> \o valueToks

RECURSIVE ValueToks(_)
RECURSIVE MembersToks(_, _)

\* Serialize for Value: a map of known length (an empty one is written as
\* the two braces), a string, or a literal in one write
ValueToks(v) ==
    CASE v.kind = "object" -> <<LB>> \o MembersToks(v.members, TRUE) \o <<RB>>
      [] v.kind = "string" -> StrToks(v.lit)
      [] OTHER -> <<v.lit>>

MembersToks(ms, first) ==
    IF ms = <<>> THEN <<>>
    ELSE EntryToks(first, Head(ms).key, ValueToks(Head(ms).val))
         \o MembersToks(Tail(ms), FALSE)

----------------------------------------------------------------------------
(* Inputs *)

\* The remote context main() continues
MAIN_TRACE_ID == <<"9","d","9","6","f","6","d","5","0","6","0","4","8","d","3","3",
                   "7","9","6","d","8","5","0","a","0","9","7","9","7","e","5","5">>
MAIN_SPAN_ID == <<"0","d","b","1","8","1","8","f","6","e","5","5","1","4","e","e">>

UpperChar(c) ==
    CASE c = "a" -> "A" [] c = "b" -> "B" [] c = "c" -> "C"
      [] c = "d" -> "D" [] c = "e" -> "E" [] c = "f" -> "F" [] OTHER -> c

to_uppercase(s) == [i \in 1..Len(s) |-> UpperChar(s[i])]

RemoteTraceContext(t, s, f) ==
    [info |-> [trace_id |-> t, span_id |-> s], trace_flags |-> f]

MainCtx == RemoteTraceContext(MAIN_TRACE_ID, MAIN_SPAN_ID, 0)

\* Contexts whose identifiers are hexadecimal of the expected length
ValidCtxs ==
    { MainCtx,
      RemoteTraceContext(to_uppercase(MAIN_TRACE_ID), to_uppercase(MAIN_SPAN_ID), 1),
      RemoteTraceContext(Rep("0", TraceHexLen), MAIN_SPAN_ID, 0) }

\* Identifier texts of every shape: well-formed, upper case, all zero, empty,
\* too short, too long, too long by a leading zero, signed, not hexadecimal
TraceTexts ==
    { MAIN_TRACE_ID, to_uppercase(MAIN_TRACE_ID), Rep("0", TraceHexLen),
      <<>>, <<"a", "b", "c">>, MAIN_TRACE_ID \o <<"0">>, <<"0">> \o MAIN_TRACE_ID,
      <<"+">> \o Rep("1", TraceHexLen - 1), Rep("g", TraceHexLen) }

SpanTexts ==
    { MAIN_SPAN_ID, Rep("0", SpanHexLen),
      <<>>, <<"7">>, MAIN_SPAN_ID \o <<"0">>, Rep("z", SpanHexLen) }

AllCtxs ==
    { RemoteTraceContext(t, s, f) : t \in TraceTexts, s \in SpanTexts, f \in {0, 255} }

\* Recorded field blobs, as the lexemes of their text
ObjBlob == <<LB, QUOTE, <<"a">>, QUOTE, COLON, <<"1">>, RB>>
TwoBlob == <<LB, QUOTE, <<"a">>, QUOTE, COLON, <<"1">>, COMMA,
             QUOTE, <<"b">>, QUOTE, COLON, QUOTE, <<"x">>, QUOTE, RB>>
EmptyBlob == <<LB, RB>>
NameBlob == <<LB, QUOTE, <<"name">>, QUOTE, COLON, QUOTE, <<"x">>, QUOTE, RB>>
ScalarBlob == << <<"42">> >>
BadBlob == <<LB, <<"not json">>>>

Recorded(text) == [has |-> TRUE, text |-> text]
NotRecorded == [has |-> FALSE, text |-> <<>>]

AllBlobs ==
    { Recorded(b) : b \in {TwoBlob, EmptyBlob, NameBlob, ScalarBlob, BadBlob} }
    \cup {NotRecorded}

ObjectBlobs == { Recorded(ObjBlob) }

\* The names of the spans main() creates, by order of creation
SpanNames == << <<"main one">>, <<"nested">>, <<"nested_async">>, <<"more">> >>

SpanName(n) == IF n <= Len(SpanNames) THEN SpanNames[n] ELSE <<"more">>

\* Log events
Field(k, v) == [key |-> k, val |-> v]

Events ==
    { [level |-> <<"INFO">>, target |-> <<"example">>,
       fields |-> << Field(<<"message">>, StringValue(<<"main one">>)) >>],
      [level |-> <<"ERROR">>, target |-> <<"example::db">>,
       fields |-> << Field(<<"message">>, StringValue(<<"failed">>)),
                     Field(<<"code">>, ScalarValue(<<"42">>)) >>] }

\* Utc::now().to_rfc3339() at the n-th call
Timestamp(n) == <<"2026-11-01T00:00:00+00:00", LowerHexDigits[(n % 16) + 1]>>

----------------------------------------------------------------------------
(* The span registry and the OpenTelemetry layer *)

\* opentelemetry::Context, reduced to the span context it carries
EmptyCx ==
    [active |-> FALSE, trace_id |-> TraceId_INVALID, span_id |-> SpanId_INVALID,
     trace_flags |-> 0, is_remote |-> FALSE]

SpanCx(t, s, f, remote) ==
    [active |-> TRUE, trace_id |-> t, span_id |-> s, trace_flags |-> f,
     is_remote |-> remote]

Some(v) == [some |-> TRUE, v |-> v]
NoTraceId == [some |-> FALSE, v |-> TraceId_INVALID]
NoSpanId == [some |-> FALSE, v |-> SpanId_INVALID]

\* What the id generator may return: ids 00..0g, g in 1..MaxGen
MaxGen == 1
GenId(width, g) == Rep(0, width - 1) \o <<g>>

\* PreSampledTracer::new_trace_id / new_span_id: the generator's id, or the
\* invalid id once the provider is gone
new_trace_id(g) == IF provider THEN GenId(TraceHexLen, g) ELSE TraceId_INVALID
new_span_id(g) == IF provider THEN GenId(SpanHexLen, g) ELSE SpanId_INVALID

lookup_current == IF stack = <<>> THEN 0 ELSE stack[Len(stack)]

\* PreSampledTracer::sampled_context: the context a child of the span gets
sampled_context(data) ==
    IF ~provider THEN EmptyCx
    ELSE LET trace == IF data.parent_cx.active THEN data.parent_cx.trace_id
                      ELSE data.builder.trace_id.v
             flags == IF data.parent_cx.active THEN data.parent_cx.trace_flags ELSE 1
             span  == IF data.builder.span_id.some THEN data.builder.span_id.v
                      ELSE SpanId_INVALID
         IN  SpanCx(trace, span, flags, FALSE)

NoRoot == [set |-> FALSE, ctx |-> MainCtx]

----------------------------------------------------------------------------
(* The formatter *)

\* How the sink treats the writes of one call: the at-th write is rejected
\* (0: none is), and if persistent every later one too
NoFault == [at |-> 0, persistent |-> FALSE]

Rejects(fault, k) ==
    fault.at > 0 /\ (k = fault.at \/ (fault.persistent /\ k > fault.at))

NewWriter == [out |-> <<>>, n |-> 0, ok |-> TRUE]

\* WriteAdaptor::write for each token in turn (serde_json writes valid UTF-8
\* only, so the text is always handed on): the tokens up to the first one the
\* sink rejects reach the sink, the rest are not attempted
WriteAdaptor_write(fault, w, toks) ==
    Bind({ k \in (w.n + 1)..(w.n + Len(toks)) : Rejects(fault, k) }, LAMBDA bad :
      IF bad = {}
        THEN [out |-> w.out \o toks, n |-> w.n + Len(toks), ok |-> TRUE]
        ELSE [out |-> w.out \o SubSeq(toks, 1, Min(bad) - w.n - 1),
              n |-> Min(bad), ok |-> FALSE])

SpanFieldToks_nested(parsed) ==
    IF parsed.ok
      THEN EntryToks(TRUE, <<"fields">>, ValueToks(parsed.val))
    ELSE EntryToks(TRUE, <<"field_error">>, StrToks(parsed.err))

\* The entries SerializableSpan::serialize emits for the recorded fields
SpanFieldToks(parsed) ==
    IF parsed.ok /\ parsed.val.kind = "object"
      THEN MembersToks(parsed.val.members, TRUE)
    ELSE IF parsed.ok
      THEN EntryToks(TRUE, <<"field">>, ValueToks(parsed.val))
           \o EntryToks(FALSE, <<"field_error">>, StrToks(<<"field was no a valid object">>))
    ELSE EntryToks(TRUE, <<"field_error">>, StrToks(parsed.err))

\* SerializableSpan::serialize: the opening brace, the recorded fields, the
\* name, the closing brace; it panics when the span has no FormattedFields
\* and, in a debug build, when the blob is no JSON object
SerializableSpan_serialize(fault, w, span, dbg) ==
    Bind(WriteAdaptor_write(fault, w, <<LB>>), LAMBDA w1 :
      IF ~w1.ok THEN [w |-> w1, panic |-> FALSE]
      ELSE IF ~span.fields.has THEN [w |-> w1, panic |-> TRUE]
      ELSE Bind(from_str(span.fields.text), LAMBDA parsed :
        IF dbg /\ ~(parsed.ok /\ parsed.val.kind = "object")
          THEN [w |-> w1, panic |-> TRUE]
        ELSE Bind(SpanFieldToks(parsed), LAMBDA fieldToks :
          [w |-> WriteAdaptor_write(fault, w1,
                   fieldToks
                   \o EntryToks(fieldToks = <<>>, <<"name">>, StrToks(span.name))
                   \o <<RB>>),
           panic |-> FALSE])))

TraceInfo(t, s) == [trace_id |-> t, span_id |-> s]
NoTraceInfo == [some |-> FALSE, v |-> TraceInfo(<<>>, <<>>)]

trace_info_from_ref_unchecked(cx) ==
    Some(TraceInfo(to_string(cx.trace_id), to_string(cx.span_id)))

\* trace_info_from_ref: the ids of the span a context carries, none when the
\* trace id is the invalid one (a context without a span carries that)
trace_info_from_ref(cx) ==
    IF cx.trace_id = TraceId_INVALID THEN NoTraceInfo
    ELSE Some(TraceInfo(to_string(cx.trace_id), to_string(cx.span_id)))

ResolveTraceInfo_builder_trace(span) ==
    LET o == span.otel.v
        info == trace_info_from_ref(o.parent_cx)
    IN  IF ~span.otel.some \/ ~info.some THEN NoTraceInfo
        ELSE Some(TraceInfo(
               IF o.builder.trace_id.some THEN to_string(o.builder.trace_id.v)
               ELSE info.v.trace_id,
               IF o.builder.span_id.some THEN to_string(o.builder.span_id.v)
               ELSE info.v.span_id))

\* format_event's lookup: OtelData of the span, then trace_info_from_ref of
\* its parent context, the span id replaced by the builder's if it has one
ResolveTraceInfo(span) ==
    IF ~span.otel.some THEN NoTraceInfo
    ELSE LET o == span.otel.v
             info == trace_info_from_ref(o.parent_cx)
         IN  IF ~info.some THEN NoTraceInfo
             ELSE IF o.builder.span_id.some
               THEN Some(TraceInfo(info.v.trace_id, to_string(o.builder.span_id.v)))
             ELSE info

Outcome(res, w) == [res |-> res, out |-> w.out, n |-> w.n]

\* The end of the record: serializer.end() and writeln!(writer)
FinishRecord(fault, w) ==
    Bind(WriteAdaptor_write(fault, w, <<RB>>), LAMBDA w1 :
      IF ~w1.ok THEN Outcome("err", w1)
      ELSE Bind(WriteAdaptor_write(fault, w1, <<NEWLINE>>), LAMBDA w2 :
        IF ~w2.ok THEN Outcome("err", w2) ELSE Outcome("ok", w2)))

RecordHead_target_first(ev, now) ==
    <<LB>>
    \o EntryToks(TRUE, <<"timestamp">>, StrToks(now))
    \o EntryToks(FALSE, <<"level">>, StrToks(ev.level))
    \o EntryToks(FALSE, <<"target">>, StrToks(ev.target))
    \o EntryToks(FALSE, <<"fields">>, ValueToks(ObjectValue(ev.fields)))

\* The opening brace and the four entries every record starts with
RecordHead(ev, now) ==
    <<LB>>
    \o EntryToks(TRUE, <<"timestamp">>, StrToks(now))
    \o EntryToks(FALSE, <<"level">>, StrToks(ev.level))
    \o EntryToks(FALSE, <<"fields">>, ValueToks(ObjectValue(ev.fields)))
    \o EntryToks(FALSE, <<"target">>, StrToks(ev.target))

\* Json::format_event for event ev at time now, the current span being cur
\* (has: there is one), under the sink behaviour fault
format_event(has, cur, ev, now, fault, dbg) ==
    Bind(WriteAdaptor_write(fault, NewWriter, RecordHead(ev, now)), LAMBDA w1 :
      IF ~w1.ok THEN Outcome("err", w1)
      ELSE IF ~has THEN FinishRecord(fault, w1)
      ELSE Bind(WriteAdaptor_write(fault, w1,
                  <<COMMA>> \o StrToks(<<"span">>) \o <<COLON>>), LAMBDA key :
        Bind(IF key.ok THEN SerializableSpan_serialize(fault, key, cur, dbg)
             ELSE [w |-> key, panic |-> FALSE], LAMBDA sp :
          IF sp.panic THEN Outcome("panic", sp.w)
          ELSE Bind(ResolveTraceInfo(cur), LAMBDA info :
            IF ~info.some THEN FinishRecord(fault, sp.w)
            ELSE Bind(WriteAdaptor_write(fault, sp.w,
                        EntryToks(FALSE, <<"span_id">>, StrToks(info.v.span_id))
                        \o EntryToks(FALSE, <<"trace_id">>, StrToks(info.v.trace_id))),
                      LAMBDA w3 :
                        IF ~w3.ok THEN Outcome("err", w3)
                        ELSE FinishRecord(fault, w3))))))

\* The sink behaviours that differ on a call whose undisturbed run makes n writes
Faults(n) == {NoFault} \cup { [at |-> k, persistent |-> p] : k \in 1..n, p \in BOOLEAN }

----------------------------------------------------------------------------
(* State *)

NoSpan ==
    [name |-> <<>>, parent |-> 0, fields |-> NotRecorded,
     otel |-> [some |-> FALSE,
               v |-> [parent_cx |-> EmptyCx,
                      builder |-> [trace_id |-> NoTraceId, span_id |-> NoSpanId]]]]

NoAttach ==
    [n |-> 0, span |-> 0, ctx |-> MainCtx, panicked |-> FALSE,
     before |-> EmptyCx, after |-> EmptyCx]

Init ==
    /\ spans = <<>>
    /\ stack = <<>>
    /\ provider = TRUE
    /\ debug \in BOOLEAN
    /\ sink = <<>>
    /\ calls = <<>>
    /\ attach = NoAttach
    /\ rooted = <<>>
    /\ panicked = FALSE

\* info_span! / #[tracing::instrument]: a new span under the current one.
\* The fmt layer records its fields; the OpenTelemetry layer's on_new_span
\* builds its OtelData.
NewSpan(limit, blobs) ==
    /\ ~panicked
    /\ Len(spans) < limit
    /\ \E blob \in blobs, g \in 1..MaxGen :
         LET cur == lookup_current
             pcx == IF cur # 0 /\ spans[cur].otel.some
                      THEN sampled_context(spans[cur].otel.v) ELSE EmptyCx
             builder == [trace_id |-> IF pcx.active THEN NoTraceId
                                      ELSE Some(new_trace_id(g)),
                         span_id |-> Some(new_span_id(g))]
             rec == [name |-> SpanName(Len(spans) + 1), parent |-> cur,
                     fields |-> blob,
                     otel |-> Some([parent_cx |-> pcx, builder |-> builder])]
         IN  /\ spans' = Append(spans, rec)
             /\ rooted' = Append(rooted, IF cur # 0 THEN rooted[cur] ELSE NoRoot)
    /\ UNCHANGED <<stack, provider, debug, sink, calls, attach, panicked>>

\* span.enter()
Enter ==
    /\ ~panicked
    /\ \E s \in 1..Len(spans) :
         /\ \A i \in 1..Len(stack) : stack[i] # s
         /\ stack' = Append(stack, s)
    /\ UNCHANGED <<spans, provider, debug, sink, calls, attach, rooted, panicked>>

\* drop of the guard of the innermost entered span
Exit ==
    /\ ~panicked
    /\ stack # <<>>
    /\ stack' = SubSeq(stack, 1, Len(stack) - 1)
    /\ UNCHANGED <<spans, provider, debug, sink, calls, attach, rooted, panicked>>

\* global::shutdown_tracer_provider()
ShutdownProvider ==
    /\ ~panicked
    /\ provider
    /\ provider' = FALSE
    /\ UNCHANGED <<spans, stack, debug, sink, calls, attach, rooted, panicked>>

\* remote_trace_span(span, &ctx): both ids are parsed (unwrap panics on a
\* parse error), then set_parent replaces the span's parent context
remote_trace_span(limit, ctxs) ==
    /\ ~panicked
    /\ attach.n < limit
    /\ \E s \in 1..Len(spans), ctx \in ctxs :
         LET t == TraceId_from_hex(ctx.info.trace_id)
             sid == SpanId_from_hex(ctx.info.span_id)
             ok == t.ok /\ sid.ok
             cx == SpanCx(t.v, sid.v, ctx.trace_flags, TRUE)
             old == spans[s].otel.v.parent_cx
         IN  /\ spans' = IF ok THEN [spans EXCEPT ![s].otel.v.parent_cx = cx] ELSE spans
             /\ panicked' = ~ok
             /\ rooted' = IF ok THEN [rooted EXCEPT ![s] = [set |-> TRUE, ctx |-> ctx]]
                          ELSE rooted
             /\ attach' = [n |-> attach.n + 1, span |-> s, ctx |-> ctx, panicked |-> ~ok,
                           before |-> old, after |-> spans'[s].otel.v.parent_cx]
    /\ UNCHANGED <<stack, provider, debug, sink, calls>>

\* The calls so far on which the sink rejected a write
FaultyCalls == Cardinality({ i \in 1..Len(calls) : calls[i].at > 0 })

\* An event is logged: the fmt layer calls format_event with the current span
FormatEvent(limit, faulty) ==
    /\ ~panicked
    /\ Len(calls) < limit
    /\ \E ev \in Events :
         LET id == lookup_current
             has == id # 0
             cur == IF has THEN spans[id] ELSE NoSpan
             now == Timestamp(Len(calls) + 1)
             n0 == format_event(has, cur, ev, now, NoFault, debug).n
         IN  \E fault \in (IF faulty /\ FaultyCalls < MaxFaults
                            THEN Faults(n0) ELSE {NoFault}) :
               \E r \in {format_event(has, cur, ev, now, fault, debug)} :
                   /\ sink' = sink \o r.out
                   /\ panicked' = (r.res = "panic")
                   /\ calls' = Append(calls,
                         [ev |-> ev, now |-> now, res |-> r.res, at |-> fault.at,
                          has |-> has, id |-> id, cur |-> cur,
                          root |-> IF has THEN rooted[id] ELSE NoRoot,
                          from |-> Len(sink), to |-> Len(sink) + Len(r.out)])
    /\ UNCHANGED <<spans, stack, provider, debug, attach, rooted>>

\* The formatter under every sink behaviour and every recorded blob
Next ==
    \/ NewSpan(MaxFmtSpans, AllBlobs)
    \/ Enter
    \/ Exit
    \/ remote_trace_span(MaxFmtAttach, {MainCtx})
    \/ FormatEvent(MaxFmtCalls, TRUE)

Spec == Init /\ [][Next]_vars

\* The span tree: nesting and remote parents, on a sink that accepts all
NextTrace ==
    \/ NewSpan(MaxSpans, ObjectBlobs)
    \/ Enter
    \/ Exit
    \/ remote_trace_span(MaxAttach, ValidCtxs)
    \/ FormatEvent(MaxCalls, FALSE)

\* The blobs of this specification are objects, for which the debug and the
\* production build do the same: it follows the production build
InitProduction == Init /\ ~debug

SpecTrace == InitProduction /\ [][NextTrace]_vars

\* remote_trace_span on identifier texts of every shape
NextRemote ==
    \/ NewSpan(MaxFmtSpans, ObjectBlobs)
    \/ Enter
    \/ ShutdownProvider
    \/ remote_trace_span(MaxFmtAttach, AllCtxs)
    \/ FormatEvent(MaxCalls, FALSE)

SpecRemote == Init /\ [][NextRemote]_vars

----------------------------------------------------------------------------
(* Reading the sink back *)

\* What a call wrote, and the line it wrote when it ended with a newline
Written(c) == SubSeq(sink, c.from + 1, c.to)
Terminated(c) == c.to > c.from /\ sink[c.to] = NEWLINE
Line(c) == SubSeq(sink, c.from + 1, c.to - 1)

IsRecord(t) == ParseDocument(t).ok /\ ParseDocument(t).val.kind = "object"
Doc(c) == ParseDocument(Line(c)).val

\* The call returned Ok and left one JSON object and a newline
Emitted(c) == c.res = "ok" /\ Terminated(c) /\ IsRecord(Line(c))

Keys(v) == [i \in 1..Len(v.members) |-> v.members[i].key]
HasKey(v, k) == \E i \in 1..Len(v.members) : v.members[i].key = k
CountKey(v, k) == Cardinality({ i \in 1..Len(v.members) : v.members[i].key = k })
Get(v, k) == v.members[Min({ i \in 1..Len(v.members) : v.members[i].key = k })].val

RECURSIVE DistinctKeys(_)
DistinctKeys(v) ==
    /\ \A i, j \in 1..Len(v.members) : i # j => v.members[i].key # v.members[j].key
    /\ \A i \in 1..Len(v.members) : DistinctKeys(v.members[i].val)

\* The sink cut at its newlines: the lines, and what follows the last newline
RECURSIVE SplitLines(_, _, _)
SplitLines(t, cur, acc) ==
    IF t = <<>> THEN [lines |-> acc, rest |-> cur]
    ELSE IF Head(t) = NEWLINE THEN SplitLines(Tail(t), <<>>, Append(acc, cur))
    ELSE SplitLines(Tail(t), Append(cur, Head(t)), acc)

CallIds == 1..Len(calls)

K_timestamp == <<"timestamp">>
K_level == <<"level">>
K_fields == <<"fields">>
K_target == <<"target">>
K_span == <<"span">>
K_span_id == <<"span_id">>
K_trace_id == <<"trace_id">>
K_name == <<"name">>
FixedKeys == <<K_timestamp, K_level, K_fields, K_target>>

\* The undisturbed run of a call, and whether the sink rejected a write of
\* one of the call's optional entries (span, span_id, trace_id)
CleanRun(c) == format_event(c.has, c.cur, c.ev, c.now, NoFault, debug)
InOptionalEntries(c) ==
    c.at > Len(RecordHead(c.ev, c.now)) /\ c.at < CleanRun(c).n - 1

----------------------------------------------------------------------------
(* Claims about the record written *)

\* C1 (as claimed, in the production build): when the sink accepts every
\* write, every call returns Ok and the sink holds, in call order, one
\* complete JSON object and one newline per call.
C1_OneLinePerCall ==
    (~debug /\ \A i \in CallIds : calls[i].at = 0) =>
        LET split == SplitLines(sink, <<>>, <<>>)
        IN  /\ \A i \in CallIds : calls[i].res = "ok"
            /\ split.rest = <<>>
            /\ Len(split.lines) = Len(calls)
            /\ \A i \in CallIds :
                 /\ IsRecord(split.lines[i])
                 /\ HasKey(ParseDocument(split.lines[i]).val, K_timestamp)
                 /\ Get(ParseDocument(split.lines[i]).val, K_timestamp).lit = calls[i].now

\* C2 (as claimed): a call during which the sink rejects a write returns a
\* formatting error and leaves no token of its record in the sink.
C2_FailedCallLeavesNothing ==
    \A i \in CallIds :
        calls[i].at > 0 => calls[i].res = "err" /\ calls[i].to = calls[i].from

\* C3 (as claimed, in the production build): when there is a current span and
\* an optional entry fails (the span has no recorded field record, or the sink
\* rejects a write of the span, span_id or trace_id entry), the call still
\* returns Ok and the record is one well-formed object that holds timestamp,
\* level, fields and target and nothing of a failed span entry.
C3_OptionalFailureKeepsEvent ==
    ~debug =>
      \A i \in CallIds :
        LET c == calls[i]
        IN  (c.has /\ (~c.cur.fields.has \/ InOptionalEntries(c))) =>
              /\ Emitted(c)
              /\ SubSeq(Keys(Doc(c)), 1, 4) = FixedKeys
              /\ (~c.cur.fields.has => ~HasKey(Doc(c), K_span))

\* C8: in the production build, on a sink that accepts every write, the span
\* entry of a span with a recorded blob holds: the blob's members, flattened,
\* and nothing else (object blob); field and field_error (blob that parses to
\* another value); field_error with the parse error (blob that does not
\* parse); and in each case name, last.
C8_SpanEntries ==
    \A i \in CallIds :
        LET c == calls[i]
            p == from_str(c.cur.fields.text)
            name == Field(K_name, StringValue(c.cur.name))
        IN  (~debug /\ c.has /\ c.cur.fields.has /\ c.at = 0) =>
              /\ Emitted(c)
              /\ HasKey(Doc(c), K_span)
              /\ Get(Doc(c), K_span).kind = "object"
              /\ Get(Doc(c), K_span).members =
                   IF p.ok /\ p.val.kind = "object"
                     THEN p.val.members \o <<name>>
                   ELSE IF p.ok
                     THEN << Field(<<"field">>, p.val),
                             Field(<<"field_error">>,
                                   StringValue(<<"field was no a valid object">>)),
                             name >>
                   ELSE << Field(<<"field_error">>, StringValue(p.err)), name >>

\* C8's case: a span whose blob parses to a number has been formatted in the
\* production build
C8_Witness ==
    /\ ~debug
    /\ \E i \in CallIds : calls[i].has /\ calls[i].at = 0 /\ calls[i].res = "ok"
                          /\ calls[i].cur.fields = Recorded(ScalarBlob)

IdTails == { <<>>, <<K_span_id>>, <<K_trace_id>>, <<K_span_id, K_trace_id>> }

C10_DistinctKeys ==
    \A i \in CallIds :
        LET c == calls[i]
        IN  (Emitted(c) /\ c.at = 0) =>
              /\ DistinctKeys(Doc(c))
              /\ (HasKey(Doc(c), K_span) =>
                    /\ CountKey(Get(Doc(c), K_span), K_name) = 1
                    /\ Get(Get(Doc(c), K_span), K_name) = StringValue(c.cur.name))

----------------------------------------------------------------------------
(* Claims about the trace identifiers *)

HexChars == {"0", "1", "2", "3", "4", "5", "6", "7", "8", "9",
             "a", "b", "c", "d", "e", "f", "A", "B", "C", "D", "E", "F"}

IsHexOfLen(s, n) == Len(s) = n /\ \A i \in 1..Len(s) : s[i] \in HexChars

LowerChar(c) ==
    CASE c = "A" -> "a" [] c = "B" -> "b" [] c = "C" -> "c"
      [] c = "D" -> "d" [] c = "E" -> "e" [] c = "F" -> "f" [] OTHER -> c

to_lowercase(s) == [i \in 1..Len(s) |-> LowerChar(s[i])]

C5_TraceIdIsContextText ==
    \A i \in CallIds :
        LET c == calls[i]
        IN  (Emitted(c) /\ c.has /\ c.root.set) =>
              /\ HasKey(Doc(c), K_trace_id)
              /\ Get(Doc(c), K_trace_id).lit = c.root.ctx.info.trace_id

\* C5 (amended): such an event carries trace_id equal to ctx.info.trace_id
\* in lower case, and no trace_id when ctx.info.trace_id is all zero.
C5_TraceIdContinues ==
    \A i \in CallIds :
        LET c == calls[i]
            text == c.root.ctx.info.trace_id
        IN  (Emitted(c) /\ c.has /\ c.root.set) =>
              IF text = Rep("0", TraceHexLen)
                THEN ~HasKey(Doc(c), K_trace_id)
                ELSE /\ HasKey(Doc(c), K_trace_id)
                     /\ Get(Doc(c), K_trace_id).lit = to_lowercase(text)

\* C5's case: the only remote parent was given to a span, in upper case, and
\* an event is formatted two levels beneath that span
C5_Witness ==
    \E i \in CallIds :
        LET c == calls[i]
        IN  /\ Emitted(c) /\ c.has /\ c.root.set
            /\ c.cur.parent # 0
            /\ spans[c.cur.parent].parent # 0
            /\ attach.n = 1
            /\ attach.span = spans[c.cur.parent].parent
            /\ attach.ctx.info.trace_id = to_uppercase(MAIN_TRACE_ID)
            /\ Get(Doc(c), K_trace_id).lit = MAIN_TRACE_ID

\* C6 (as claimed): the span_id written is the builder's span id if and only
\* if the builder has one that is not the all-zero id, and the span id of the
\* associated context otherwise; the trace_id written is that of the context.
C6_SpanIdReconciled ==
    \A i \in CallIds :
        LET c == calls[i]
            o == c.cur.otel.v
            b == o.builder.span_id
        IN  (Emitted(c) /\ HasKey(Doc(c), K_span_id)) =>
              /\ Get(Doc(c), K_span_id).lit =
                    IF b.some /\ b.v # SpanId_INVALID THEN to_string(b.v)
                    ELSE to_string(o.parent_cx.span_id)
              /\ Get(Doc(c), K_trace_id).lit = to_string(o.parent_cx.trace_id)

\* C7 (as claimed): remote_trace_span panics and leaves the parent context
\* as it was unless trace_id is 32 and span_id 16 hexadecimal characters; for
\* such ids it sets the parent to the remote context of those ids and flags.
C7_RemoteTraceSpanValidates ==
    attach.n > 0 =>
        LET t == attach.ctx.info.trace_id
            sid == attach.ctx.info.span_id
        IN  IF IsHexOfLen(t, TraceHexLen) /\ IsHexOfLen(sid, SpanHexLen)
              THEN /\ ~attach.panicked
                   /\ attach.after = SpanCx([i \in 1..Len(t) |-> HexVal(t[i])],
                                            [i \in 1..Len(sid) |-> HexVal(sid[i])],
                                            attach.ctx.trace_flags, TRUE)
              ELSE /\ attach.panicked
                   /\ attach.after = attach.before

====
